---- MODULE Spec2Model ----
(***************************************************************************)
(* Binomial (Cox-Ross-Rubinstein) pricer of binomial.c: OptionPrice and    *)
(* Payoff, one action per executed statement of OptionPrice.               *)
(*                                                                         *)
(* A C double is modelled as an exact rational <<num, den>> in lowest      *)
(* terms with den > 0, extended with the IEEE-754 special values           *)
(* NaN = <<0,0>>, +Inf = <<1,0>> and -Inf = <<-1,0>>.  Rounding and signed *)
(* zeros are not modelled.  A buffer slot that malloc returned and no      *)
(* statement has written yet holds Uninit; reading it yields any value of  *)
(* Garbage.                                                                *)
(***************************************************************************)
EXTENDS Integers, Sequences, FiniteSets

(* ------------------------------ bounds -------------------------------- *)

\* number of lattice steps (binomial.c:52 fixes 1000; bounded here)
n == 2

\* number of successive calls of OptionPrice in one behaviour
MaxCalls == 2

(* --------------------------- double arithmetic ------------------------ *)

NaN == <<0, 0>>
PosInf == <<1, 0>>
Zero == <<0, 1>>
One == <<1, 1>>
Half == <<1, 2>>
Uninit == <<0, -1>>

Abs(a) == IF a < 0 THEN -a ELSE a

Sign(a) == IF a < 0 THEN -1 ELSE IF a > 0 THEN 1 ELSE 0

RECURSIVE GCD(_, _)
GCD(a, b) == IF b = 0 THEN a ELSE GCD(b, a % b)

\* the double with value a/b (b # 0), in lowest terms
Norm(a, b) ==
    LET g == GCD(Abs(a), Abs(b))
        s == Sign(b)
    IN  <<(s * a) \div g, (s * b) \div g>>

IsNaN(x) == x[2] = 0 /\ x[1] = 0
IsInf(x) == x[2] = 0 /\ x[1] # 0

Neg(x) == <<-x[1], x[2]>>

Add(x, y) ==
    IF IsNaN(x) \/ IsNaN(y) THEN NaN
    ELSE IF IsInf(x) /\ IsInf(y) THEN (IF x = y THEN x ELSE NaN)
    ELSE IF IsInf(x) THEN x
    ELSE IF IsInf(y) THEN y
    ELSE LET g == GCD(x[2], y[2])
         IN  Norm(x[1] * (y[2] \div g) + y[1] * (x[2] \div g), x[2] * (y[2] \div g))

Sub(x, y) == Add(x, Neg(y))

Mul(x, y) ==
    IF IsNaN(x) \/ IsNaN(y) THEN NaN
    ELSE IF IsInf(x) \/ IsInf(y)
         THEN (IF x[1] = 0 \/ y[1] = 0 THEN NaN ELSE <<Sign(x[1]) * Sign(y[1]), 0>>)
    ELSE LET a == Norm(x[1], y[2])
             b == Norm(y[1], x[2])
         IN  <<a[1] * b[1], a[2] * b[2]>>

Div(x, y) ==
    IF IsNaN(x) \/ IsNaN(y) THEN NaN
    ELSE IF IsInf(y) THEN (IF IsInf(x) THEN NaN ELSE Zero)
    ELSE IF y[1] = 0 THEN (IF x[1] = 0 THEN NaN ELSE <<Sign(x[1]), 0>>)
    ELSE IF IsInf(x) THEN <<Sign(x[1]) * Sign(y[1]), 0>>
    ELSE Mul(x, Norm(y[2], y[1]))

\* x > y on doubles: false as soon as one side is NaN
Gt(x, y) == ~IsNaN(x) /\ ~IsNaN(y) /\ x[1] * y[2] > y[1] * x[2]

\* largest r with r * r <= k
Isqrt(k) == CHOOSE r \in 0..k : r * r <= k /\ (r + 1) * (r + 1) > k

\* sqrt of math.h: NaN on a negative argument; the root of numerator and
\* denominator, which is exact on every radicand the inputs of Options give
sqrt(x) ==
    IF IsNaN(x) THEN NaN
    ELSE IF IsInf(x) THEN (IF x[1] > 0 THEN PosInf ELSE NaN)
    ELSE IF x[1] < 0 THEN NaN
    ELSE Norm(Isqrt(x[1]), Isqrt(x[2]))

\* exp of math.h on the exponents the inputs of Options give, with rational
\* values within 3% of the exponential that satisfy exp(-x) = 1 / exp(x)
exp(x) ==
    CASE IsNaN(x) -> NaN
      [] x = Zero -> One
      [] x = <<2, 7>> -> <<4, 3>>
      [] x = <<-2, 7>> -> <<3, 4>>
      [] x = <<1, 4>> -> <<19, 15>>
      [] x = <<15, 28>> -> <<7, 4>>

(* ------------------------------ inputs -------------------------------- *)

\* (rate, volatility) pairs, as decimals per year
RateVol ==
    { <<Zero, Zero>>, <<(<<2, 7>>), Zero>>, <<(<<-2, 7>>), Zero>>,
      <<Zero, Half>>, <<(<<2, 7>>), Half>> }

\* (asset, strike) pairs: at the money, in the money, and both again with
\* the asset doubled or the strike doubled
AssetStrike == { <<(<<1, 1>>), (<<1, 1>>)>>, <<(<<2, 1>>), (<<1, 1>>)>>, <<(<<2, 1>>), (<<2, 1>>)>> }

\* the option struct after main's unit conversion; expiry is n years, so
\* that one lattice step is one year
Options ==
    { [asset |-> ak[1], strike |-> ak[2], expiry |-> <<n, 1>>,
       rate |-> rv[1], volatility |-> rv[2]] :
        ak \in AssetStrike, rv \in RateVol }

\* values an uninitialised or released slot may be read as
Garbage == { Zero, <<5, 1>>, NaN }

Buffers == { "assetPrices", "optionPrices" }

(* ------------------------------- state -------------------------------- *)

VARIABLES
    pc,            \* position in OptionPrice, "idle" between calls
    opt,           \* the parameter of the running call
    discount, u, v, p,    \* lattice constants of the running call
    idx, jdx,      \* loop counters
    assetPrices,   \* buffer of n+1 doubles
    optionPrices,  \* buffer of n+1 doubles
    heap,          \* per buffer: "none", "live" or "freed"
    frees,         \* per buffer: number of free() calls of the running call
    price,         \* local price
    acc,           \* the buffer accesses of the last executed statement
    history        \* <<opt, returned price>> of every finished call

vars == <<pc, opt, discount, u, v, p, idx, jdx, assetPrices, optionPrices,
          heap, frees, price, acc, history>>

NoOpt == [asset |-> Zero, strike |-> Zero, expiry |-> Zero, rate |-> Zero, volatility |-> Zero]

Fresh == [j \in 0..n |-> Uninit]

(* ------------------------- lattice constants -------------------------- *)

step(o) == Div(o.expiry, <<n, 1>>)

discountOf(o) == exp(Mul(Neg(o.rate), step(o)))

ufactor(o) ==
    Mul(Half, Add(discountOf(o),
                  exp(Mul(Add(o.rate, Mul(o.volatility, o.volatility)), step(o)))))

uOf(o) == Add(ufactor(o), sqrt(Sub(Mul(ufactor(o), ufactor(o)), One)))

vOf(o) == Div(One, uOf(o))

pOf(o) == Div(Sub(exp(Mul(o.rate, step(o))), vOf(o)), Sub(uOf(o), vOf(o)))

(* ------------------------------ Payoff -------------------------------- *)

\* mutant: the payoff of a put
PayoffPut(price_, strike) == IF Gt(strike, price_) THEN Sub(strike, price_) ELSE Zero

\* mutant: the payoff without its floor at 0
PayoffNoFloor(price_, strike) == Sub(price_, strike)

Payoff(price_, strike) == IF Gt(price_, strike) THEN Sub(price_, strike) ELSE Zero

(* --------------------------- buffer accesses -------------------------- *)

Buf(b) == IF b = "assetPrices" THEN assetPrices ELSE optionPrices

Written(b, i) == i \in 0..n /\ Buf(b)[i] # Uninit

\* the values a read of b[i] may yield
ReadVals(b, i) ==
    IF heap[b] = "live" /\ Written(b, i) THEN { Buf(b)[i] } ELSE Garbage

\* the buffer b after b[i] = val; a write outside the buffer leaves it as it is
Store(b, i, val) ==
    IF i \in 0..n THEN [Buf(b) EXCEPT ![i] = val] ELSE Buf(b)

Access(b, o, i) ==
    [buf |-> b, op |-> o, i |-> i, init |-> Written(b, i), heap |-> heap[b],
     pc |-> pc, idx |-> idx]

(* ---------------------------- loop tests ------------------------------ *)

\* for(idx = 1; idx <= n; idx++)
ForwardOuterTest(i) == i <= n

\* mutant: the inner forward loop stops one slot early
ForwardInnerTestEarly(j) == j > 1

\* for(jdx = idx; jdx >= 1; jdx--)
ForwardInnerTest(j) == j >= 1

\* mutant: the payoff loop leaves out the last node
PayoffTestShort(j) == j < n

\* for(jdx = 0; jdx <= n; jdx++)
PayoffTest(j) == j <= n

\* mutant: one backward pass too few
BackOuterTestShort(i) == i > 1

\* for(idx = n; idx >= 1; idx--)
BackOuterTest(i) == i >= 1

\* mutant: the pass idx = i stops at node i - 1
BackInnerTestTri(i, j) == j < i

\* mutant: the pass runs one node too far
BackInnerTestOver(i, j) == j <= n

\* for(jdx = 0; jdx < n; jdx++), inside the pass idx = i
BackInnerTest(i, j) == j < n

(* ------------------------------ actions ------------------------------- *)

Init ==
    /\ pc = "idle"
    /\ opt = NoOpt
    /\ discount = Zero /\ u = Zero /\ v = Zero /\ p = Zero
    /\ idx = 0 /\ jdx = 0
    /\ assetPrices = Fresh
    /\ optionPrices = Fresh
    /\ heap = [b \in Buffers |-> "none"]
    /\ frees = [b \in Buffers |-> 0]
    /\ price = Zero
    /\ acc = {}
    /\ history = <<>>

\* entry of OptionPrice(opt): the lattice constants
Call ==
    /\ pc = "idle"
    /\ Len(history) < MaxCalls
    /\ \E o \in Options :
        /\ opt' = o
        /\ discount' = discountOf(o)
        /\ u' = uOf(o)
        /\ v' = vOf(o)
        /\ p' = pOf(o)
    /\ idx' = 0 /\ jdx' = 0
    /\ pc' = "alloc"
    /\ acc' = {}
    /\ UNCHANGED <<assetPrices, optionPrices, heap, frees, price, history>>

\* the two malloc((n+1) * sizeof(double)); malloc is taken to succeed
Alloc ==
    /\ pc = "alloc"
    /\ heap' = [b \in Buffers |-> "live"]
    /\ frees' = [b \in Buffers |-> 0]
    /\ assetPrices' = Fresh
    /\ optionPrices' = Fresh
    /\ pc' = "first"
    /\ acc' = {}
    /\ UNCHANGED <<opt, discount, u, v, p, idx, jdx, price, history>>

\* assetPrices[0] = opt.asset; and the entry of the forward loops
First ==
    /\ pc = "first"
    /\ assetPrices' = Store("assetPrices", 0, opt.asset)
    /\ acc' = { Access("assetPrices", "w", 0) }
    /\ idx' = 1
    /\ IF ForwardOuterTest(1)
       THEN jdx' = 1 /\ pc' = "forward"
       ELSE jdx' = 0 /\ pc' = "payoff"
    /\ UNCHANGED <<opt, discount, u, v, p, optionPrices, heap, frees, price, history>>

\* assetPrices[jdx] = u * assetPrices[jdx - 1]; jdx--
ForwardInner ==
    /\ pc = "forward"
    /\ ForwardInnerTest(jdx)
    /\ \E a \in ReadVals("assetPrices", jdx - 1) :
        assetPrices' = Store("assetPrices", jdx, Mul(u, a))
    /\ acc' = { Access("assetPrices", "r", jdx - 1), Access("assetPrices", "w", jdx) }
    /\ jdx' = jdx - 1
    /\ UNCHANGED <<pc, opt, discount, u, v, p, idx, optionPrices, heap, frees, price, history>>

\* assetPrices[0] = v * assetPrices[0]; idx++, and the entry of the next
\* forward step or of the payoff loop
ForwardSlot0 ==
    /\ pc = "forward"
    /\ ~ForwardInnerTest(jdx)
    /\ \E a \in ReadVals("assetPrices", 0) :
        assetPrices' = Store("assetPrices", 0, Mul(v, a))
    /\ acc' = { Access("assetPrices", "r", 0), Access("assetPrices", "w", 0) }
    /\ idx' = idx + 1
    /\ IF ForwardOuterTest(idx + 1)
       THEN jdx' = idx + 1 /\ pc' = "forward"
       ELSE jdx' = 0 /\ pc' = "payoff"
    /\ UNCHANGED <<opt, discount, u, v, p, optionPrices, heap, frees, price, history>>

\* optionPrices[jdx] = Payoff(assetPrices[jdx], opt.strike); jdx++, and the
\* entry of the backward loops (whose first inner test 0 < n holds, n >= 1)
PayoffStep ==
    /\ pc = "payoff"
    /\ PayoffTest(jdx)
    /\ \E a \in ReadVals("assetPrices", jdx) :
        optionPrices' = Store("optionPrices", jdx, Payoff(a, opt.strike))
    /\ acc' = { Access("assetPrices", "r", jdx), Access("optionPrices", "w", jdx) }
    /\ IF PayoffTest(jdx + 1)
       THEN jdx' = jdx + 1 /\ idx' = idx /\ pc' = "payoff"
       ELSE IF BackOuterTest(n)
            THEN jdx' = 0 /\ idx' = n /\ pc' = "back"
            ELSE jdx' = jdx + 1 /\ idx' = n /\ pc' = "read"
    /\ UNCHANGED <<opt, discount, u, v, p, assetPrices, heap, frees, price, history>>

\* optionPrices[jdx] = discount * (p * optionPrices[jdx + 1] + (1 - p) *
\* optionPrices[jdx]); jdx++, and the entry of the next pass or the exit
BackStep ==
    /\ pc = "back"
    /\ BackInnerTest(idx, jdx)
    /\ \E hi \in ReadVals("optionPrices", jdx + 1), lo \in ReadVals("optionPrices", jdx) :
        optionPrices' =
            Store("optionPrices", jdx,
                  Mul(discount, Add(Mul(p, hi), Mul(Sub(One, p), lo))))
    /\ acc' = { Access("optionPrices", "r", jdx + 1), Access("optionPrices", "r", jdx),
                Access("optionPrices", "w", jdx) }
    /\ IF BackInnerTest(idx, jdx + 1)
       THEN jdx' = jdx + 1 /\ idx' = idx /\ pc' = "back"
       ELSE IF BackOuterTest(idx - 1)
            THEN jdx' = 0 /\ idx' = idx - 1 /\ pc' = "back"
            ELSE jdx' = jdx + 1 /\ idx' = idx - 1 /\ pc' = "read"
    /\ UNCHANGED <<opt, discount, u, v, p, assetPrices, heap, frees, price, history>>

\* price = optionPrices[0]
ReadPrice ==
    /\ pc = "read"
    /\ \E x \in ReadVals("optionPrices", 0) : price' = x
    /\ acc' = { Access("optionPrices", "r", 0) }
    /\ pc' = "freeAsset"
    /\ UNCHANGED <<opt, discount, u, v, p, idx, jdx, assetPrices, optionPrices,
                   heap, frees, history>>

\* free(assetPrices)
FreeAsset ==
    /\ pc = "freeAsset"
    /\ heap' = [heap EXCEPT !["assetPrices"] = "freed"]
    /\ frees' = [frees EXCEPT !["assetPrices"] = @ + 1]
    /\ acc' = {}
    /\ pc' = "freeOption"
    /\ UNCHANGED <<opt, discount, u, v, p, idx, jdx, assetPrices, optionPrices,
                   price, history>>

\* mutant: assetPrices is released a second time, optionPrices never
FreeOptionSlip ==
    /\ pc = "freeOption"
    /\ heap' = [heap EXCEPT !["assetPrices"] = "freed"]
    /\ frees' = [frees EXCEPT !["assetPrices"] = @ + 1]
    /\ acc' = {}
    /\ pc' = "return"
    /\ UNCHANGED <<opt, discount, u, v, p, idx, jdx, assetPrices, optionPrices,
                   price, history>>

\* free(optionPrices)
FreeOption ==
    /\ pc = "freeOption"
    /\ heap' = [heap EXCEPT !["optionPrices"] = "freed"]
    /\ frees' = [frees EXCEPT !["optionPrices"] = @ + 1]
    /\ acc' = {}
    /\ pc' = "return"
    /\ UNCHANGED <<opt, discount, u, v, p, idx, jdx, assetPrices, optionPrices,
                   price, history>>

\* return price; the frame of the call is gone, the heap keeps its state
Return ==
    /\ pc = "return"
    /\ history' = Append(history, <<opt, price>>)
    /\ pc' = "idle"
    /\ opt' = NoOpt
    /\ discount' = Zero /\ u' = Zero /\ v' = Zero /\ p' = Zero
    /\ idx' = 0 /\ jdx' = 0
    /\ price' = Zero
    /\ assetPrices' = Fresh
    /\ optionPrices' = Fresh
    /\ acc' = {}
    /\ UNCHANGED <<heap, frees>>

Next ==
    \/ Call
    \/ Alloc
    \/ First
    \/ ForwardInner
    \/ ForwardSlot0
    \/ PayoffStep
    \/ BackStep
    \/ ReadPrice
    \/ FreeAsset
    \/ FreeOption
    \/ Return

Spec == Init /\ [][Next]_vars

(* ------------------------ properties: helpers ------------------------- *)

RECURSIVE Pow(_, _)
Pow(x, k) == IF k = 0 THEN One ELSE Mul(x, Pow(x, k - 1))

\* asset * u^j * v^(m-j): node j of column m of the recombining lattice
Lattice(j, m) == Mul(Mul(opt.asset, Pow(u, j)), Pow(v, m - j))

\* x <= y on doubles: false as soon as one side is NaN
Leq(x, y) == ~IsNaN(x) /\ ~IsNaN(y) /\ x[1] * y[2] <= y[1] * x[2]

\* max(x, y) of two doubles that are not NaN
MaxD(x, y) == IF Leq(y, x) THEN x ELSE y

\* the statements after the forward loops
AfterForward == { "payoff", "back", "read", "freeAsset", "freeOption", "return" }

\* the statements after price = optionPrices[0]
AfterRead == { "freeAsset", "freeOption", "return" }

\* the discounted risk-neutral expectation of the spec's step 9
Recur(hi, lo) == Mul(discount, Add(Mul(p, hi), Mul(Sub(One, p), lo)))

\* the terminal payoffs of the completed terminal column
Terminal == [j \in 0..n |-> MaxD(Sub(assetPrices[j], opt.strike), Zero)]

\* one pass of the triangular recurrence: the nodes 0..s-1 only
TriPass(val, s) ==
    [j \in 0..n |-> IF j <= s - 1 THEN Recur(val[j + 1], val[j]) ELSE val[j]]

\* the values after the passes step = n, n-1, .., n-k+1 of the triangular recurrence
RECURSIVE TriAfter(_)
TriAfter(k) == IF k = 0 THEN Terminal ELSE TriPass(TriAfter(k - 1), n - k + 1)

\* one pass over the nodes 0..n-1, every node from the values before the pass
FullPass(val) ==
    [j \in 0..n |-> IF j <= n - 1 THEN Recur(val[j + 1], val[j]) ELSE val[j]]

RECURSIVE FullAfter(_)
FullAfter(k) == IF k = 0 THEN Terminal ELSE FullPass(FullAfter(k - 1))

\* the largest terminal payoff
MaxPayoff ==
    CHOOSE m \in { Terminal[j] : j \in 0..n } : \A j \in 0..n : Leq(Terminal[j], m)

InUnit(x) == Leq(Zero, x) /\ Leq(x, One)

\* finite doubles on which Payoff is compared with max(price - strike, 0)
Grid == { Norm(a, b) : a \in -2..3, b \in 1..2 }

(* ----------------------------- properties ----------------------------- *)

\* C1: after forward step m (m = idx - 1 when the step idx is about to
\* start), slot j holds asset * u^j * v^(m-j) for every j in 0..m; once the
\* n forward steps are done, slot j holds asset * u^j * v^(n-j) for every j
\* in 0..n.
C1_ForwardLattice ==
    /\ (pc = "forward" /\ jdx = idx) =>
          \A j \in 0..(idx - 1) : assetPrices[j] = Lattice(j, idx - 1)
    /\ pc \in AfterForward =>
          \A j \in 0..n : assetPrices[j] = Lattice(j, n)

C1_Witness ==
    /\ pc = "payoff" /\ jdx = 0
    /\ u # v
    /\ assetPrices[n] = Mul(opt.asset, Pow(u, n))
    /\ assetPrices[0] = Mul(opt.asset, Pow(v, n))
    /\ assetPrices[n] # assetPrices[0]

\* C3: when backward induction starts, optionPrices[j] = max(assetPrices[j]
\* - strike, 0) for every j in 0..n (and for every j already evaluated while
\* the payoff loop runs); Payoff(price, strike) is price - strike when
\* price > strike and 0 otherwise, price = strike included, on every pair of
\* Grid (compared when the payoff loop is entered).
C3_TerminalPayoff ==
    /\ (pc = "back" /\ idx = n /\ jdx = 0) =>
          \A j \in 0..n : optionPrices[j] = MaxD(Sub(assetPrices[j], opt.strike), Zero)
    /\ pc = "payoff" =>
          \A j \in 0..(jdx - 1) :
              optionPrices[j] = MaxD(Sub(assetPrices[j], opt.strike), Zero)
    /\ (pc = "payoff" /\ jdx = 0) =>
        \A x \in Grid, y \in Grid :
          /\ Payoff(x, y) = MaxD(Sub(x, y), Zero)
          /\ Gt(x, y) => Payoff(x, y) = Sub(x, y)
          /\ ~Gt(x, y) => Payoff(x, y) = Zero

C3_Witness ==
    /\ pc = "back" /\ idx = n /\ jdx = 0
    /\ \E j \in 0..n : assetPrices[j] = opt.strike /\ optionPrices[j] = Zero
    /\ \E j \in 0..n : Gt(assetPrices[j], opt.strike) /\ Gt(optionPrices[j], Zero)
    /\ \E j \in 0..n : Gt(opt.strike, assetPrices[j]) /\ optionPrices[j] = Zero

\* C4: both buffers are live from the allocation to the read of the price,
\* every access goes to a live buffer, the price is read from
\* optionPrices[0] before the first free, and at the return each buffer has
\* been released exactly once.
C4_BufferLifetime ==
    /\ pc \in { "first", "forward", "payoff", "back", "read" } =>
          \A b \in Buffers : heap[b] = "live" /\ frees[b] = 0
    /\ \A a \in acc : a.heap = "live"
    /\ pc = "freeAsset" =>
          /\ acc = { [buf |-> "optionPrices", op |-> "r", i |-> 0, init |-> TRUE,
                      heap |-> "live", pc |-> "read", idx |-> idx] }
          /\ \A b \in Buffers : frees[b] = 0
    /\ pc \in AfterRead => price = optionPrices[0]
    /\ pc = "return" => \A b \in Buffers : heap[b] = "freed" /\ frees[b] = 1
    /\ (pc = "idle" /\ Len(history) > 0) =>
          \A b \in Buffers : heap[b] = "freed" /\ frees[b] = 1
    /\ \A b \in Buffers : frees[b] <= 1

C4_Witness ==
    /\ pc = "return"
    /\ Len(history) = 1
    /\ \A b \in Buffers : heap[b] = "freed" /\ frees[b] = 1
    /\ Gt(price, Zero)

\* C9: every access of a buffer uses an index in 0..n and every slot that is
\* read was written earlier in the call; the forward step idx reads only
\* slots 0..idx-1 and a backward pass reads optionPrices[jdx+1] only for
\* jdx+1 <= n.
C9_AccessSafety ==
    \A a \in acc :
        /\ a.i \in 0..n
        /\ a.op = "r" => a.init
        /\ (a.pc = "forward" /\ a.op = "r") => a.i \in 0..(a.idx - 1)

C9_Witness ==
    /\ pc = "back"
    /\ \E a \in acc : a.pc = "back" /\ a.op = "r" /\ a.i = n /\ a.init
    /\ \E a \in acc : a.pc = "back" /\ a.op = "w" /\ a.i = n - 1

\* C2 as stated: the backward pass for step idx writes only the nodes
\* 0..idx-1, no node with index >= idx.
C2_TriangularWrites ==
    \A a \in acc : (a.pc = "back" /\ a.op = "w") => a.i \in 0..(a.idx - 1)

\* C2 as amended: every backward pass, whatever its step, writes the nodes
\* 0..n-1 and only those, each as discount * (p * value[j+1] + (1-p) *
\* value[j]) of the values value[j+1] and value[j] from before the pass.
C2_FullPasses ==
    /\ \A a \in acc : (a.pc = "back" /\ a.op = "w") => a.i \in 0..(n - 1)
    /\ pc = "back" =>
          LET prev == FullAfter(n - idx)
          IN  \A j \in 0..n :
                optionPrices[j] =
                    IF j < jdx THEN Recur(prev[j + 1], prev[j]) ELSE prev[j]
    /\ pc = "read" => optionPrices = FullAfter(n)

C2_Witness ==
    /\ \E a \in acc : a.pc = "back" /\ a.op = "w" /\ a.i > a.idx - 1
    /\ pc = "read"
    /\ optionPrices = FullAfter(n)
    /\ optionPrices # Terminal
    /\ \E j \in 0..n : optionPrices[j] # TriAfter(n)[j]

\* C5: two calls with identical parameters return identical results,
\* whatever call ran before and whatever the fresh buffers hold.
C5_Deterministic ==
    \A i \in 1..Len(history), j \in 1..Len(history) :
        history[i][1] = history[j][1] => history[i][2] = history[j][2]

C5_Witness ==
    /\ Len(history) = 2
    /\ history[1][1] = history[2][1]
    /\ history[1][2] = history[2][2]
    /\ Gt(history[1][2], Zero)

\* the parameter sets a and b differ in the field asset only
OnlyAssetDiffers(a, b) ==
    /\ a.asset # b.asset
    /\ a.strike = b.strike /\ a.expiry = b.expiry
    /\ a.rate = b.rate /\ a.volatility = b.volatility

\* the parameter sets a and b differ in the field strike only
OnlyStrikeDiffers(a, b) ==
    /\ a.strike # b.strike
    /\ a.asset = b.asset /\ a.expiry = b.expiry
    /\ a.rate = b.rate /\ a.volatility = b.volatility

\* C6: for every two parameter sets that differ only in asset the price is
\* non-decreasing in asset, and for every two that differ only in strike it
\* is non-increasing in strike.
C6_Monotone ==
    \A i \in 1..Len(history), j \in 1..Len(history) :
        LET a == history[i][1]
            b == history[j][1]
        IN  /\ (OnlyAssetDiffers(a, b) /\ Leq(a.asset, b.asset)) =>
                  Leq(history[i][2], history[j][2])
            /\ (OnlyStrikeDiffers(a, b) /\ Leq(a.strike, b.strike)) =>
                  Leq(history[j][2], history[i][2])

\* C6 on the calls that return a number
C6_MonotoneWhereDefined ==
    \A i \in 1..Len(history), j \in 1..Len(history) :
        LET a == history[i][1]
            b == history[j][1]
        IN  (~IsNaN(history[i][2]) /\ ~IsNaN(history[j][2])) =>
              /\ (OnlyAssetDiffers(a, b) /\ Leq(a.asset, b.asset)) =>
                    Leq(history[i][2], history[j][2])
              /\ (OnlyStrikeDiffers(a, b) /\ Leq(a.strike, b.strike)) =>
                    Leq(history[j][2], history[i][2])

\* C7: for asset = strike, rate = 0 and volatility = 0 the call returns the
\* intrinsic value 0, and u, v and p are well defined (none is NaN).
C7_ZeroVolZeroRate ==
    (/\ pc = "return"
     /\ opt.rate = Zero /\ opt.volatility = Zero
     /\ opt.asset = opt.strike) =>
        /\ price = Zero
        /\ ~IsNaN(u) /\ ~IsNaN(v) /\ ~IsNaN(p)

\* C8: after pass k = n - idx of the backward loops the slots 0..n-k hold
\* the values of the triangular recurrence, the returned price is the
\* triangular recurrence's value[0], and slot n keeps its terminal payoff.
C8_TriangularEquivalence ==
    /\ (pc = "back" /\ jdx = 0) =>
          \A j \in 0..idx : optionPrices[j] = TriAfter(n - idx)[j]
    /\ pc \in { "back", "read" } => optionPrices[n] = Terminal[n]
    /\ pc = "read" => optionPrices[0] = TriAfter(n)[0]
    /\ pc \in AfterRead => price = TriAfter(n)[0]

C8_Witness ==
    /\ pc = "return"
    /\ price = TriAfter(n)[0]
    /\ Gt(price, Zero)
    /\ \E j \in 1..(n - 1) : optionPrices[j] # TriAfter(n)[j]
    /\ Gt(Terminal[n], Zero)

\* C10: if 0 <= p <= 1 and 0 <= discount <= 1, every slot of optionPrices is
\* >= 0 and <= the largest terminal payoff throughout backward induction, and
\* so is the returned price.
C10_Range ==
    (InUnit(p) /\ InUnit(discount)) =>
        /\ pc \in { "back", "read" } =>
              \A j \in 0..n :
                  Leq(Zero, optionPrices[j]) /\ Leq(optionPrices[j], MaxPayoff)
        /\ pc \in AfterRead => Leq(Zero, price) /\ Leq(price, MaxPayoff)

C10_Witness ==
    /\ pc = "return"
    /\ InUnit(p) /\ InUnit(discount)
    /\ Gt(p, Zero) /\ Gt(One, p) /\ Gt(One, discount)
    /\ Gt(price, Zero) /\ Gt(MaxPayoff, price)

====
